---- MODULE Spec2Model ----
(***************************************************************************)
(* The agora ticketing schema (six tables, ON DELETE CASCADE foreign keys, *)
(* the BEFORE UPDATE trigger update_updated_at_column) and the static      *)
(* OrganizerComponent of the web front-end.                                *)
(*                                                                         *)
(* A table is the set of its rows, a row a record of its columns.  The     *)
(* columns kept are the key, the foreign keys, the constrained or          *)
(* quantity columns and the two timestamps; free TEXT / DECIMAL columns    *)
(* that no constraint, default or trigger reads (users.name, description,  *)
(* status, amount, ...) are represented by organizers.name.                *)
(* One action is one SQL statement on one row; a statement that raises an  *)
(* error leaves every table as it was, the error being the value of the    *)
(* statement's ...Errors operator, the set of the violations it raises.    *)
(***************************************************************************)
EXTENDS Integers, Sequences, FiniteSets, TLC

VARIABLES users, organizers, events, ticket_tiers, tickets, transactions,
          now, rendered

tables == <<users, organizers, events, ticket_tiers, tickets, transactions>>
vars == <<users, organizers, events, ticket_tiers, tickets, transactions,
          now, rendered>>

\* ------------------------------------------------------------------ bounds
\* The clock runs over 0 .. MaxNow; Future is a timestamp later than any NOW().
MaxNow == 1
\* total_quantity and available_quantity range over 0 .. MaxQty.
MaxQty == 1

Quantities == 0 .. MaxQty
Times == 0 .. MaxNow
Emails == {"a@x", "b@x"}
Names == {"n"}

\* ----------------------------------------------------------- statements
\* An INSERT carries `values`, an UPDATE carries `set`: a record of the columns
\* the statement names.  A column an INSERT leaves out takes its DEFAULT, or is
\* NULL where it has none; a column an UPDATE leaves out keeps its value.
Ids(T) == {r.id : r \in T}
Column(values, c, d) == IF c \in DOMAIN values THEN values[c] ELSE d
\* NOT NULL on a column without DEFAULT that the INSERT leaves out.
Missing(values, required) == required \ DOMAIN values # {}
\* id DEFAULT uuid_generate_v4(): a key no row has; an explicit id is taken as is.
NewIds(values, T, keys) ==
  IF "id" \in DOMAIN values THEN {values.id} ELSE keys \ Ids(T)
\* WHERE id = id
Where(T, id) == {r \in T : r.id = id}

NOT_NULL_VIOLATION == "not_null_violation"
UNIQUE_VIOLATION == "unique_violation"
FOREIGN_KEY_VIOLATION == "foreign_key_violation"

\* ------------------------------------------------------------ constraints
\* Each ...Errors gives the violations the row `new` raises when it is stored
\* next to the rows `others` of its table (all rows for an INSERT, all but the
\* old row for an UPDATE).  A statement fails when the set is not empty; the
\* schema does not say which of several violations the engine reports.
PrimaryKey(new, others) ==
  IF new.id \in Ids(others) THEN {UNIQUE_VIOLATION} ELSE {}
Unique(value, taken) ==
  IF value \in taken THEN {UNIQUE_VIOLATION} ELSE {}
References(key, parent) ==
  IF key \notin Ids(parent) THEN {FOREIGN_KEY_VIOLATION} ELSE {}

\* Mutant: users.email without UNIQUE.
usersErrorsWithoutEmailKey(new, others) == PrimaryKey(new, others)

usersErrors(new, others) ==
  PrimaryKey(new, others) \cup Unique(new.email, {u.email : u \in others})

organizersErrors(new, others) == PrimaryKey(new, others)

eventsErrors(new, others) ==
  PrimaryKey(new, others) \cup References(new.organizer_id, organizers)

\* Mutant: ticket_tiers with CHECK (available_quantity <= total_quantity).
ticket_tiersErrorsWithQuantityCheck(new, others) ==
  PrimaryKey(new, others) \cup References(new.event_id, events)
    \cup (IF new.available_quantity > new.total_quantity
          THEN {"check_violation"} ELSE {})

ticket_tiersErrors(new, others) ==
  PrimaryKey(new, others) \cup References(new.event_id, events)

ticketsErrors(new, others) ==
  PrimaryKey(new, others) \cup References(new.user_id, users)
    \cup References(new.ticket_tier_id, ticket_tiers)

\* Mutant: transactions.ticket_id without REFERENCES tickets(id).
transactionsErrorsWithoutForeignKey(new, others) == PrimaryKey(new, others)

transactionsErrors(new, others) ==
  PrimaryKey(new, others) \cup References(new.ticket_id, tickets)

\* REFERENCES without ON UPDATE is NO ACTION: a key that a child row references
\* cannot be changed.
KeyChangeErrors(old, new, referenced) ==
  IF new.id # old.id /\ old.id \in referenced THEN {FOREIGN_KEY_VIOLATION} ELSE {}

\* ---------------------------------------------------------------- trigger
\* Mutant: the trigger returns NEW as the statement left it.
update_updated_at_column_unset(new) == new
\* Mutant: the trigger stamps created_at as well.
update_updated_at_column_both(new) ==
  [new EXCEPT !.updated_at = now, !.created_at = now]

\* update_updated_at_column: NEW.updated_at = NOW(); RETURN NEW.
update_updated_at_column(new) == [new EXCEPT !.updated_at = now]

\* ------------------------------------------------------ ON DELETE CASCADE
\* Mutants: a foreign key without ON DELETE CASCADE takes no child row along.
ticket_tiersNoCascade(gone) == {}
ticketsUserNoCascade(gone) == {}
transactionsNoCascade(gone) == {}

\* The rows of the child table that go when the parent rows `gone` go.
eventsCascade(gone) == {e \in events : e.organizer_id \in Ids(gone)}
ticket_tiersCascade(gone) == {t \in ticket_tiers : t.event_id \in Ids(gone)}
ticketsUserCascade(gone) == {k \in tickets : k.user_id \in Ids(gone)}
ticketsTierCascade(gone) == {k \in tickets : k.ticket_tier_id \in Ids(gone)}
transactionsCascade(gone) == {x \in transactions : x.ticket_id \in Ids(gone)}

\* The six tables after DELETE of the rows dU .. dX of them, with every
\* cascade the delete starts.
AfterDelete(dU, dO, dE, dT, dK, dX) ==
  LET goneE == dE \cup eventsCascade(dO)
      goneT == dT \cup ticket_tiersCascade(goneE)
      goneK == dK \cup ticketsUserCascade(dU) \cup ticketsTierCascade(goneT)
      goneX == dX \cup transactionsCascade(goneK)
  IN  [users |-> users \ dU,
       organizers |-> organizers \ dO,
       events |-> events \ goneE,
       ticket_tiers |-> ticket_tiers \ goneT,
       tickets |-> tickets \ goneK,
       transactions |-> transactions \ goneX]

\* A DELETE statement: the tables become db.
Delete(db) ==
  /\ users' = db.users
  /\ organizers' = db.organizers
  /\ events' = db.events
  /\ ticket_tiers' = db.ticket_tiers
  /\ tickets' = db.tickets
  /\ transactions' = db.transactions
  /\ UNCHANGED <<now, rendered>>

\* ------------------------------------------------------------------ users
usersRequired == {"email"}
usersRow(values, k) ==
  [id |-> k, email |-> values.email,
   created_at |-> Column(values, "created_at", now),
   updated_at |-> Column(values, "updated_at", now)]
usersInsertErrors(values, k) ==
  IF Missing(values, usersRequired) THEN {NOT_NULL_VIOLATION}
  ELSE usersErrors(usersRow(values, k), users)
usersSet(old, set) ==
  [id |-> Column(set, "id", old.id), email |-> Column(set, "email", old.email),
   created_at |-> Column(set, "created_at", old.created_at),
   updated_at |-> Column(set, "updated_at", old.updated_at)]
usersUpdateErrors(old, new) ==
  usersErrors(new, users \ {old})
    \cup KeyChangeErrors(old, new, {k.user_id : k \in tickets})

\* The table after INSERT INTO users (columns of values) VALUES (values),
\* the new row's key being k.
usersAfterInsert(values, k) ==
  IF usersInsertErrors(values, k) = {}
  THEN users \cup {usersRow(values, k)} ELSE users
\* The row UPDATE users SET set stores for the row old: the SET list applied,
\* then the BEFORE UPDATE trigger.
usersUpdated(old, set) == update_updated_at_column(usersSet(old, set))
\* The table after UPDATE users SET set WHERE id = id.
usersAfterUpdate(id, set) ==
  IF Where(users, id) = {} THEN users
  ELSE LET old == CHOOSE r \in Where(users, id) : TRUE
           new == usersUpdated(old, set)
       IN  IF usersUpdateErrors(old, new) = {}
           THEN (users \ {old}) \cup {new} ELSE users

InsertUser(values, k) ==
  /\ users' = usersAfterInsert(values, k)
  /\ UNCHANGED <<organizers, events, ticket_tiers, tickets, transactions, now, rendered>>

UpdateUser(id, set) ==
  /\ users' = usersAfterUpdate(id, set)
  /\ UNCHANGED <<organizers, events, ticket_tiers, tickets, transactions, now, rendered>>

\* The tables after DELETE FROM users WHERE id = id.
AfterDeleteUser(id) == AfterDelete(Where(users, id), {}, {}, {}, {}, {})
DeleteUser(id) == Delete(AfterDeleteUser(id))

\* ------------------------------------------------------------- organizers
organizersRequired == {"name"}
organizersRow(values, k) ==
  [id |-> k, name |-> values.name,
   created_at |-> Column(values, "created_at", now),
   updated_at |-> Column(values, "updated_at", now)]
organizersInsertErrors(values, k) ==
  IF Missing(values, organizersRequired) THEN {NOT_NULL_VIOLATION}
  ELSE organizersErrors(organizersRow(values, k), organizers)
organizersSet(old, set) ==
  [id |-> Column(set, "id", old.id), name |-> Column(set, "name", old.name),
   created_at |-> Column(set, "created_at", old.created_at),
   updated_at |-> Column(set, "updated_at", old.updated_at)]
organizersUpdateErrors(old, new) ==
  organizersErrors(new, organizers \ {old})
    \cup KeyChangeErrors(old, new, {e.organizer_id : e \in events})

\* The table after INSERT INTO organizers (columns of values) VALUES (values),
\* the new row's key being k.
organizersAfterInsert(values, k) ==
  IF organizersInsertErrors(values, k) = {}
  THEN organizers \cup {organizersRow(values, k)} ELSE organizers
\* The row UPDATE organizers SET set stores for the row old: the SET list applied,
\* then the BEFORE UPDATE trigger.
organizersUpdated(old, set) == update_updated_at_column(organizersSet(old, set))
\* The table after UPDATE organizers SET set WHERE id = id.
organizersAfterUpdate(id, set) ==
  IF Where(organizers, id) = {} THEN organizers
  ELSE LET old == CHOOSE r \in Where(organizers, id) : TRUE
           new == organizersUpdated(old, set)
       IN  IF organizersUpdateErrors(old, new) = {}
           THEN (organizers \ {old}) \cup {new} ELSE organizers

InsertOrganizer(values, k) ==
  /\ organizers' = organizersAfterInsert(values, k)
  /\ UNCHANGED <<users, events, ticket_tiers, tickets, transactions, now, rendered>>

UpdateOrganizer(id, set) ==
  /\ organizers' = organizersAfterUpdate(id, set)
  /\ UNCHANGED <<users, events, ticket_tiers, tickets, transactions, now, rendered>>

\* The tables after DELETE FROM organizers WHERE id = id.
AfterDeleteOrganizer(id) == AfterDelete({}, Where(organizers, id), {}, {}, {}, {})
DeleteOrganizer(id) == Delete(AfterDeleteOrganizer(id))

\* ----------------------------------------------------------------- events
eventsRequired == {"organizer_id"}
eventsRow(values, k) ==
  [id |-> k, organizer_id |-> values.organizer_id,
   created_at |-> Column(values, "created_at", now),
   updated_at |-> Column(values, "updated_at", now)]
eventsInsertErrors(values, k) ==
  IF Missing(values, eventsRequired) THEN {NOT_NULL_VIOLATION}
  ELSE eventsErrors(eventsRow(values, k), events)
eventsSet(old, set) ==
  [id |-> Column(set, "id", old.id),
   organizer_id |-> Column(set, "organizer_id", old.organizer_id),
   created_at |-> Column(set, "created_at", old.created_at),
   updated_at |-> Column(set, "updated_at", old.updated_at)]
eventsUpdateErrors(old, new) ==
  eventsErrors(new, events \ {old})
    \cup KeyChangeErrors(old, new, {t.event_id : t \in ticket_tiers})

\* The table after INSERT INTO events (columns of values) VALUES (values),
\* the new row's key being k.
eventsAfterInsert(values, k) ==
  IF eventsInsertErrors(values, k) = {}
  THEN events \cup {eventsRow(values, k)} ELSE events
\* The row UPDATE events SET set stores for the row old: the SET list applied,
\* then the BEFORE UPDATE trigger.
eventsUpdated(old, set) == update_updated_at_column(eventsSet(old, set))
\* The table after UPDATE events SET set WHERE id = id.
eventsAfterUpdate(id, set) ==
  IF Where(events, id) = {} THEN events
  ELSE LET old == CHOOSE r \in Where(events, id) : TRUE
           new == eventsUpdated(old, set)
       IN  IF eventsUpdateErrors(old, new) = {}
           THEN (events \ {old}) \cup {new} ELSE events

InsertEvent(values, k) ==
  /\ events' = eventsAfterInsert(values, k)
  /\ UNCHANGED <<users, organizers, ticket_tiers, tickets, transactions, now, rendered>>

UpdateEvent(id, set) ==
  /\ events' = eventsAfterUpdate(id, set)
  /\ UNCHANGED <<users, organizers, ticket_tiers, tickets, transactions, now, rendered>>

\* The tables after DELETE FROM events WHERE id = id.
AfterDeleteEvent(id) == AfterDelete({}, {}, Where(events, id), {}, {}, {})
DeleteEvent(id) == Delete(AfterDeleteEvent(id))

\* ----------------------------------------------------------- ticket_tiers
ticket_tiersRequired == {"event_id", "total_quantity", "available_quantity"}
ticket_tiersRow(values, k) ==
  [id |-> k, event_id |-> values.event_id,
   total_quantity |-> values.total_quantity,
   available_quantity |-> values.available_quantity,
   created_at |-> Column(values, "created_at", now),
   updated_at |-> Column(values, "updated_at", now)]
ticket_tiersInsertErrors(values, k) ==
  IF Missing(values, ticket_tiersRequired) THEN {NOT_NULL_VIOLATION}
  ELSE ticket_tiersErrors(ticket_tiersRow(values, k), ticket_tiers)
ticket_tiersSet(old, set) ==
  [id |-> Column(set, "id", old.id),
   event_id |-> Column(set, "event_id", old.event_id),
   total_quantity |-> Column(set, "total_quantity", old.total_quantity),
   available_quantity |-> Column(set, "available_quantity", old.available_quantity),
   created_at |-> Column(set, "created_at", old.created_at),
   updated_at |-> Column(set, "updated_at", old.updated_at)]
ticket_tiersUpdateErrors(old, new) ==
  ticket_tiersErrors(new, ticket_tiers \ {old})
    \cup KeyChangeErrors(old, new, {k.ticket_tier_id : k \in tickets})

\* The table after INSERT INTO ticket_tiers (columns of values) VALUES (values),
\* the new row's key being k.
ticket_tiersAfterInsert(values, k) ==
  IF ticket_tiersInsertErrors(values, k) = {}
  THEN ticket_tiers \cup {ticket_tiersRow(values, k)} ELSE ticket_tiers
\* The row UPDATE ticket_tiers SET set stores for the row old: the SET list applied,
\* then the BEFORE UPDATE trigger.
ticket_tiersUpdated(old, set) == update_updated_at_column(ticket_tiersSet(old, set))
\* The table after UPDATE ticket_tiers SET set WHERE id = id.
ticket_tiersAfterUpdate(id, set) ==
  IF Where(ticket_tiers, id) = {} THEN ticket_tiers
  ELSE LET old == CHOOSE r \in Where(ticket_tiers, id) : TRUE
           new == ticket_tiersUpdated(old, set)
       IN  IF ticket_tiersUpdateErrors(old, new) = {}
           THEN (ticket_tiers \ {old}) \cup {new} ELSE ticket_tiers

InsertTicketTier(values, k) ==
  /\ ticket_tiers' = ticket_tiersAfterInsert(values, k)
  /\ UNCHANGED <<users, organizers, events, tickets, transactions, now, rendered>>

UpdateTicketTier(id, set) ==
  /\ ticket_tiers' = ticket_tiersAfterUpdate(id, set)
  /\ UNCHANGED <<users, organizers, events, tickets, transactions, now, rendered>>

\* The tables after DELETE FROM ticket_tiers WHERE id = id.
AfterDeleteTicketTier(id) == AfterDelete({}, {}, {}, Where(ticket_tiers, id), {}, {})
DeleteTicketTier(id) == Delete(AfterDeleteTicketTier(id))

\* ---------------------------------------------------------------- tickets
ticketsRequired == {"user_id", "ticket_tier_id"}
ticketsRow(values, k) ==
  [id |-> k, user_id |-> values.user_id, ticket_tier_id |-> values.ticket_tier_id,
   created_at |-> Column(values, "created_at", now),
   updated_at |-> Column(values, "updated_at", now)]
ticketsInsertErrors(values, k) ==
  IF Missing(values, ticketsRequired) THEN {NOT_NULL_VIOLATION}
  ELSE ticketsErrors(ticketsRow(values, k), tickets)
ticketsSet(old, set) ==
  [id |-> Column(set, "id", old.id),
   user_id |-> Column(set, "user_id", old.user_id),
   ticket_tier_id |-> Column(set, "ticket_tier_id", old.ticket_tier_id),
   created_at |-> Column(set, "created_at", old.created_at),
   updated_at |-> Column(set, "updated_at", old.updated_at)]
ticketsUpdateErrors(old, new) ==
  ticketsErrors(new, tickets \ {old})
    \cup KeyChangeErrors(old, new, {x.ticket_id : x \in transactions})

\* The table after INSERT INTO tickets (columns of values) VALUES (values),
\* the new row's key being k.
ticketsAfterInsert(values, k) ==
  IF ticketsInsertErrors(values, k) = {}
  THEN tickets \cup {ticketsRow(values, k)} ELSE tickets
\* The row UPDATE tickets SET set stores for the row old: the SET list applied,
\* then the BEFORE UPDATE trigger.
ticketsUpdated(old, set) == update_updated_at_column(ticketsSet(old, set))
\* The table after UPDATE tickets SET set WHERE id = id.
ticketsAfterUpdate(id, set) ==
  IF Where(tickets, id) = {} THEN tickets
  ELSE LET old == CHOOSE r \in Where(tickets, id) : TRUE
           new == ticketsUpdated(old, set)
       IN  IF ticketsUpdateErrors(old, new) = {}
           THEN (tickets \ {old}) \cup {new} ELSE tickets

\* Mutant: issuing a ticket takes one from its tier's available_quantity.
InsertTicketDecrementing(values, k) ==
  /\ tickets' = ticketsAfterInsert(values, k)
  /\ ticket_tiers' =
       IF ticketsInsertErrors(values, k) # {} THEN ticket_tiers
       ELSE {IF t.id = values.ticket_tier_id
             THEN [t EXCEPT !.available_quantity = @ - 1] ELSE t :
             t \in ticket_tiers}
  /\ UNCHANGED <<users, organizers, events, transactions, now, rendered>>

InsertTicket(values, k) ==
  /\ tickets' = ticketsAfterInsert(values, k)
  /\ UNCHANGED <<users, organizers, events, ticket_tiers, transactions, now, rendered>>

UpdateTicket(id, set) ==
  /\ tickets' = ticketsAfterUpdate(id, set)
  /\ UNCHANGED <<users, organizers, events, ticket_tiers, transactions, now, rendered>>

\* The tables after DELETE FROM tickets WHERE id = id.
AfterDeleteTicket(id) == AfterDelete({}, {}, {}, {}, Where(tickets, id), {})
DeleteTicket(id) == Delete(AfterDeleteTicket(id))

\* ----------------------------------------------------------- transactions
transactionsRequired == {"ticket_id"}
transactionsRow(values, k) ==
  [id |-> k, ticket_id |-> values.ticket_id,
   created_at |-> Column(values, "created_at", now),
   updated_at |-> Column(values, "updated_at", now)]
transactionsInsertErrors(values, k) ==
  IF Missing(values, transactionsRequired) THEN {NOT_NULL_VIOLATION}
  ELSE transactionsErrors(transactionsRow(values, k), transactions)
transactionsSet(old, set) ==
  [id |-> Column(set, "id", old.id),
   ticket_id |-> Column(set, "ticket_id", old.ticket_id),
   created_at |-> Column(set, "created_at", old.created_at),
   updated_at |-> Column(set, "updated_at", old.updated_at)]
transactionsUpdateErrors(old, new) == transactionsErrors(new, transactions \ {old})

\* The table after INSERT INTO transactions (columns of values) VALUES (values),
\* the new row's key being k.
transactionsAfterInsert(values, k) ==
  IF transactionsInsertErrors(values, k) = {}
  THEN transactions \cup {transactionsRow(values, k)} ELSE transactions
\* The row UPDATE transactions SET set stores for the row old: the SET list applied,
\* then the BEFORE UPDATE trigger.
transactionsUpdated(old, set) == update_updated_at_column(transactionsSet(old, set))
\* The table after UPDATE transactions SET set WHERE id = id.
transactionsAfterUpdate(id, set) ==
  IF Where(transactions, id) = {} THEN transactions
  ELSE LET old == CHOOSE r \in Where(transactions, id) : TRUE
           new == transactionsUpdated(old, set)
       IN  IF transactionsUpdateErrors(old, new) = {}
           THEN (transactions \ {old}) \cup {new} ELSE transactions

InsertTransaction(values, k) ==
  /\ transactions' = transactionsAfterInsert(values, k)
  /\ UNCHANGED <<users, organizers, events, ticket_tiers, tickets, now, rendered>>

UpdateTransaction(id, set) ==
  /\ transactions' = transactionsAfterUpdate(id, set)
  /\ UNCHANGED <<users, organizers, events, ticket_tiers, tickets, now, rendered>>

\* The tables after DELETE FROM transactions WHERE id = id.
AfterDeleteTransaction(id) == AfterDelete({}, {}, {}, {}, {}, Where(transactions, id))
DeleteTransaction(id) == Delete(AfterDeleteTransaction(id))

\* ------------------------------------------------------------------ clock
\* NOW() never runs backwards.
Tick == /\ now < MaxNow
        /\ now' = now + 1
        /\ UNCHANGED <<tables, rendered>>

\* ---------------------------------------------------- OrganizerComponent
cardsData ==
  << [id |-> "stellar-west-africa",
      title |-> "Stellar West Africa",
      description |-> "Building and empowering the Stellar ecosystem in West Africa through education, developer support, and real-world blockchain adoption.",
      image |-> "/icons/stellar-west-africa.svg"],
     [id |-> "stellar-east-african-community",
      title |-> "Stellar East African Community",
      description |-> "Building and empowering the Stellar ecosystem in East Africa through education, developer support, and real-world blockchain adoption.",
      image |-> "/icons/stellar-east-africa.svg"],
     [id |-> "stellar-india",
      title |-> "Stellar India",
      description |-> "Building and empowering the Stellar ecosystem in West Africa through education, developer support, and real-world blockchain adoption.",
      image |-> "/icons/stellar-india.svg"],
     [id |-> "stellar-portugal",
      title |-> "Stellar Portugal",
      description |-> "Building and empowering the Stellar ecosystem in West Africa through education, developer support, and real-world blockchain adoption.",
      image |-> "/icons/stellar-portugal.svg"] >>

\* The element one card renders to: <div key={card.id}> holding the image
\* (src, alt), the title, the description and a <Button />.
CardElement(card) ==
  [key |-> card.id, src |-> card.image, alt |-> card.title,
   title |-> card.title, description |-> card.description, button |-> "Subscribe"]

\* Mutant: the loop stops one entry short.
MapCardsButLast(cards) ==
  [i \in 1 .. Len(cards) - 1 |-> CardElement(cards[i])]

\* cardsData.map((card) => ...): one element per entry, in the array's order.
RECURSIVE MapCards(_)
MapCards(cards) ==
  IF cards = <<>> THEN <<>>
  ELSE <<CardElement(Head(cards))>> \o MapCards(Tail(cards))

\* The children of the component's <section>.
OrganizerComponent == MapCards(cardsData)

Render == /\ rendered' = OrganizerComponent
          /\ UNCHANGED <<tables, now>>

\* ------------------------------------------------------ statement inputs
\* The VALUES / SET lists tried, over a scope K: the keys of each table, the
\* explicit timestamps and the quantities. A column is left out of the
\* statement or given a value of S.
Opt(c, S) == {<<>>} \cup {c :> v : v \in S}
Stamps(K) ==
  {c @@ u : c \in Opt("created_at", K.times), u \in Opt("updated_at", K.times)}

UserValues(K) ==
  {i @@ e @@ t : i \in Opt("id", K.users), e \in Opt("email", Emails),
                 t \in Stamps(K)}
OrganizerValues(K) ==
  {i @@ n @@ t : i \in Opt("id", K.organizers), n \in Opt("name", Names),
                 t \in Stamps(K)}
EventValues(K) ==
  {i @@ o @@ t : i \in Opt("id", K.events),
                 o \in Opt("organizer_id", K.organizers), t \in Stamps(K)}
TicketTierValues(K) ==
  {i @@ e @@ q @@ a @@ t :
     i \in Opt("id", K.ticket_tiers), e \in Opt("event_id", K.events),
     q \in Opt("total_quantity", K.quantities),
     a \in Opt("available_quantity", K.quantities), t \in Stamps(K)}
TicketValues(K) ==
  {i @@ u @@ r @@ t :
     i \in Opt("id", K.tickets), u \in Opt("user_id", K.users),
     r \in Opt("ticket_tier_id", K.ticket_tiers), t \in Stamps(K)}
TransactionValues(K) ==
  {i @@ k @@ t : i \in Opt("id", K.transactions),
                 k \in Opt("ticket_id", K.tickets), t \in Stamps(K)}

\* -------------------------------------------------------- specifications
Init ==
  /\ users = {} /\ organizers = {} /\ events = {}
  /\ ticket_tiers = {} /\ tickets = {} /\ transactions = {}
  /\ now = 0
  /\ rendered = <<>>

\* One statement of the schema, with its inputs drawn from the scope K.
Statements(K) ==
  \/ \E v \in UserValues(K) :
       \E k \in NewIds(v, users, K.users) : InsertUser(v, k)
  \/ \E id \in K.users, v \in UserValues(K) : UpdateUser(id, v)
  \/ \E id \in K.users : DeleteUser(id)
  \/ \E v \in OrganizerValues(K) :
       \E k \in NewIds(v, organizers, K.organizers) : InsertOrganizer(v, k)
  \/ \E id \in K.organizers, v \in OrganizerValues(K) : UpdateOrganizer(id, v)
  \/ \E id \in K.organizers : DeleteOrganizer(id)
  \/ \E v \in EventValues(K) :
       \E k \in NewIds(v, events, K.events) : InsertEvent(v, k)
  \/ \E id \in K.events, v \in EventValues(K) : UpdateEvent(id, v)
  \/ \E id \in K.events : DeleteEvent(id)
  \/ \E v \in TicketTierValues(K) :
       \E k \in NewIds(v, ticket_tiers, K.ticket_tiers) : InsertTicketTier(v, k)
  \/ \E id \in K.ticket_tiers, v \in TicketTierValues(K) : UpdateTicketTier(id, v)
  \/ \E id \in K.ticket_tiers : DeleteTicketTier(id)
  \/ \E v \in TicketValues(K) :
       \E k \in NewIds(v, tickets, K.tickets) : InsertTicket(v, k)
  \/ \E id \in K.tickets, v \in TicketValues(K) : UpdateTicket(id, v)
  \/ \E id \in K.tickets : DeleteTicket(id)
  \/ \E v \in TransactionValues(K) :
       \E k \in NewIds(v, transactions, K.transactions) : InsertTransaction(v, k)
  \/ \E id \in K.transactions, v \in TransactionValues(K) : UpdateTransaction(id, v)
  \/ \E id \in K.transactions : DeleteTransaction(id)

\* Spec: the statements of one transaction (one NOW()), timestamps left to
\* their defaults and the trigger; and the component.
Scope ==
  [users |-> {1, 2}, organizers |-> {1, 2}, events |-> {1, 2},
   ticket_tiers |-> {1}, tickets |-> {1, 2}, transactions |-> {1, 2},
   times |-> {}, quantities |-> Quantities]

Next == Statements(Scope) \/ Render

Spec == Init /\ [][Next]_vars

\* SpecTime: the clock runs and a statement may give created_at and updated_at
\* explicitly, as the latest time of the clock's range (the present or the
\* future of the statement); one key per table.
TimeScope ==
  [users |-> {1}, organizers |-> {1}, events |-> {1},
   ticket_tiers |-> {1}, tickets |-> {1}, transactions |-> {1},
   times |-> {MaxNow}, quantities |-> {0}]

NextTime == Statements(TimeScope) \/ Tick

SpecTime == Init /\ [][NextTime]_vars

\* ================================================================= claims
\* The rows of a child table that reference one of the rows `parents`.
EventsOf(parents) == {e \in events : e.organizer_id \in Ids(parents)}
TiersOf(parents) == {t \in ticket_tiers : t.event_id \in Ids(parents)}
TicketsOfTiers(parents) == {k \in tickets : k.ticket_tier_id \in Ids(parents)}
TicketsOfUsers(parents) == {k \in tickets : k.user_id \in Ids(parents)}
TransactionsOf(parents) == {x \in transactions : x.ticket_id \in Ids(parents)}

\* No row of the tables db is one of the events E or descends from one.
EventDescendantsGone(db, E) ==
  /\ Ids(E) \cap Ids(db.events) = {}
  /\ {t.event_id : t \in db.ticket_tiers} \cap Ids(E) = {}
  /\ Ids(TiersOf(E)) \cap Ids(db.ticket_tiers) = {}
  /\ {k.ticket_tier_id : k \in db.tickets} \cap Ids(TiersOf(E)) = {}
  /\ Ids(TicketsOfTiers(TiersOf(E))) \cap Ids(db.tickets) = {}
  /\ {x.ticket_id : x \in db.transactions}
       \cap Ids(TicketsOfTiers(TiersOf(E))) = {}
  /\ Ids(TransactionsOf(TicketsOfTiers(TiersOf(E)))) \cap Ids(db.transactions) = {}

\* C1: deleting an organizer row removes it and every event with its
\* organizer_id, and deleting an event (directly or by that cascade) removes
\* every ticket_tier of that event, every ticket of those tiers and every
\* transaction of those tickets: no descendant of the deleted row is left.
C1_CascadeDelete ==
  /\ \A o \in organizers :
       LET db == AfterDeleteOrganizer(o.id)
       IN  /\ o.id \notin Ids(db.organizers)
           /\ o.id \notin {e.organizer_id : e \in db.events}
           /\ EventDescendantsGone(db, EventsOf({o}))
  /\ \A e \in events : EventDescendantsGone(AfterDeleteEvent(e.id), {e})

\* An organizer with an event, a tier, a ticket and a transaction below it,
\* next to an event of another organizer.
C1_Witness ==
  \E o \in organizers, e \in events, t \in ticket_tiers, k \in tickets,
     x \in transactions, e2 \in events :
    /\ e.organizer_id = o.id /\ t.event_id = e.id /\ k.ticket_tier_id = t.id
    /\ x.ticket_id = k.id /\ e2.organizer_id # o.id

\* The INSERTs into users that name an email some row already has.
DuplicateEmailInserts(K) ==
  {v \in UserValues(K) : "email" \in DOMAIN v /\ v.email \in {u.email : u \in users}}

\* C2: an INSERT of a user with the email of an existing row raises a
\* uniqueness violation and leaves users unchanged, and no two rows of users
\* have the same email.
C2_EmailUnique ==
  /\ \A v \in DuplicateEmailInserts(Scope) :
       \A k \in NewIds(v, users, Scope.users) :
         /\ UNIQUE_VIOLATION \in usersInsertErrors(v, k)
         /\ usersAfterInsert(v, k) = users
  /\ \A u1, u2 \in users : u1.email = u2.email => u1 = u2

\* One user, a free key, and an INSERT that names the user's email.
C2_Witness ==
  /\ Cardinality(users) = 1
  /\ \E v \in DuplicateEmailInserts(Scope) : "id" \notin DOMAIN v

\* Every foreign key of every row names a row of the parent table.
NoOrphans ==
  /\ \A e \in events : e.organizer_id \in Ids(organizers)
  /\ \A t \in ticket_tiers : t.event_id \in Ids(events)
  /\ \A k \in tickets :
       k.user_id \in Ids(users) /\ k.ticket_tier_id \in Ids(ticket_tiers)
  /\ \A x \in transactions : x.ticket_id \in Ids(tickets)

\* The column c of the VALUES v names no row of the parent table.
Dangling(v, c, parent) == c \in DOMAIN v /\ v[c] \notin Ids(parent)

\* An INSERT of VALUES whose foreign key dangles raises a foreign-key
\* violation and leaves the table as it is.
OrphanInsertFails(T, values, keys, required, dangling(_), InsertErrors(_, _),
                  AfterInsert(_, _)) ==
  \A v \in values :
    (~Missing(v, required) /\ dangling(v)) =>
      \A k \in NewIds(v, T, keys) :
        /\ FOREIGN_KEY_VIOLATION \in InsertErrors(v, k)
        /\ AfterInsert(v, k) = T

\* C4: an INSERT of an event, ticket_tier, ticket or transaction whose foreign
\* key names no row of the parent table raises a foreign-key violation and
\* changes nothing, and every child row references an existing parent row.
C4_ReferentialIntegrity ==
  /\ LET d(v) == Dangling(v, "organizer_id", organizers)
     IN  OrphanInsertFails(events, EventValues(Scope), Scope.events,
                           eventsRequired, d, eventsInsertErrors, eventsAfterInsert)
  /\ LET d(v) == Dangling(v, "event_id", events)
     IN  OrphanInsertFails(ticket_tiers, TicketTierValues(Scope),
                           Scope.ticket_tiers, ticket_tiersRequired, d,
                           ticket_tiersInsertErrors, ticket_tiersAfterInsert)
  /\ LET d(v) == \/ Dangling(v, "user_id", users)
                 \/ Dangling(v, "ticket_tier_id", ticket_tiers)
     IN  OrphanInsertFails(tickets, TicketValues(Scope), Scope.tickets,
                           ticketsRequired, d, ticketsInsertErrors,
                           ticketsAfterInsert)
  /\ LET d(v) == Dangling(v, "ticket_id", tickets)
     IN  OrphanInsertFails(transactions, TransactionValues(Scope),
                           Scope.transactions, transactionsRequired, d,
                           transactionsInsertErrors, transactionsAfterInsert)
  /\ NoOrphans

\* Every table holds a row while a key of every parent table is still unused,
\* so that children with a dangling key can be inserted next to valid ones.
C4_Witness ==
  /\ events # {} /\ ticket_tiers # {} /\ tickets # {} /\ transactions # {}
  /\ Ids(organizers) # Scope.organizers /\ Ids(users) # Scope.users
  /\ Ids(events) # Scope.events /\ Ids(tickets) # Scope.tickets

\* C5 as claimed: no ticket is referenced by more than one transactions row.
C5_AtMostOneTransactionPerTicket ==
  \A x1, x2 \in transactions : x1.ticket_id = x2.ticket_id => x1 = x2

\* C5 as amended: every transaction belongs to exactly one ticket, while a
\* ticket may have any number of transactions.
C5_TransactionHasOneTicket ==
  \A x \in transactions : Cardinality({k \in tickets : k.id = x.ticket_id}) = 1

\* Two transactions of one ticket.
C5_Witness ==
  \E x1, x2 \in transactions : x1 # x2 /\ x1.ticket_id = x2.ticket_id

\* The INSERTs into ticket_tiers that give every NOT NULL column, name an
\* existing event and ask for more available than total tickets.
OverAvailableInserts(K) ==
  {v \in TicketTierValues(K) :
     /\ ~Missing(v, ticket_tiersRequired)
     /\ v.event_id \in Ids(events)
     /\ v.available_quantity > v.total_quantity}

\* C6: an INSERT of a ticket_tier for an existing event with every NOT NULL
\* column given and available_quantity > total_quantity raises no error and
\* stores the row as given.
C6_QuantityNotEnforced ==
  \A v \in OverAvailableInserts(Scope) :
    \A k \in NewIds(v, ticket_tiers, Scope.ticket_tiers) \ Ids(ticket_tiers) :
      /\ ticket_tiersInsertErrors(v, k) = {}
      /\ \E t \in ticket_tiersAfterInsert(v, k) :
           /\ t.id = k
           /\ t.total_quantity = v.total_quantity
           /\ t.available_quantity = v.available_quantity

\* A stored tier with more available than total tickets, and room for another.
C6_Witness ==
  /\ \E t \in ticket_tiers : t.available_quantity > t.total_quantity
  /\ events # {}

\* C7: the component renders exactly four cards, one per cardsData entry, with
\* the identifiers stellar-west-africa, stellar-east-african-community,
\* stellar-india, stellar-portugal in that order, each card showing its entry.
C7_FourCardsInOrder ==
  rendered # <<>> =>
    /\ Len(rendered) = 4
    /\ [i \in 1 .. Len(rendered) |-> rendered[i].key] =
         <<"stellar-west-africa", "stellar-east-african-community",
           "stellar-india", "stellar-portugal">>
    /\ Len(rendered) = Len(cardsData)
    /\ \A i \in 1 .. Len(rendered) :
         /\ rendered[i].key = cardsData[i].id
         /\ rendered[i].title = cardsData[i].title
         /\ rendered[i].description = cardsData[i].description
         /\ rendered[i].src = cardsData[i].image

\* The component has rendered.
C7_Witness == rendered # <<>> /\ Len(rendered) = Len(cardsData)

\* C8: deleting a user removes that user's tickets and their transactions and
\* nothing else, and deleting a ticket_tier removes that tier's tickets and
\* their transactions and nothing else: the other parent's table, events,
\* organizers and every other ticket and transaction stay as they are.
C8_TicketParentsCascade ==
  /\ \A u \in users :
       LET db == AfterDeleteUser(u.id)
           gone == TicketsOfUsers({u})
       IN  /\ db.users = users \ {u}
           /\ db.tickets = tickets \ gone
           /\ db.transactions = transactions \ TransactionsOf(gone)
           /\ db.ticket_tiers = ticket_tiers
           /\ db.events = events
           /\ db.organizers = organizers
  /\ \A t \in ticket_tiers :
       LET db == AfterDeleteTicketTier(t.id)
           gone == TicketsOfTiers({t})
       IN  /\ db.ticket_tiers = ticket_tiers \ {t}
           /\ db.tickets = tickets \ gone
           /\ db.transactions = transactions \ TransactionsOf(gone)
           /\ db.users = users
           /\ db.events = events
           /\ db.organizers = organizers

\* Two users with a ticket and a transaction each.
C8_Witness ==
  \E u1, u2 \in users, k1, k2 \in tickets, x1, x2 \in transactions :
    /\ u1 # u2 /\ k1.user_id = u1.id /\ k2.user_id = u2.id
    /\ x1.ticket_id = k1.id /\ x2.ticket_id = k2.id

\* C9: a step that inserts or deletes tickets (a DELETE by cascade included)
\* changes total_quantity and available_quantity of no ticket_tiers row.
C9_NoInventoryLogic ==
  [][ (tickets' # tickets /\ (tickets \subseteq tickets' \/ tickets' \subseteq tickets)) =>
        \A t \in ticket_tiers, t2 \in ticket_tiers' :
          t2.id = t.id => /\ t2.total_quantity = t.total_quantity
                          /\ t2.available_quantity = t.available_quantity ]_vars

\* More tickets reference a tier than its total_quantity: the tier is oversold.
C9_Witness ==
  \E t \in ticket_tiers :
    /\ t.total_quantity > 0
    /\ Cardinality({k \in tickets : k.ticket_tier_id = t.id}) > t.total_quantity

\* P(old, set, new) holds of every UPDATE ... SET set of a row old of the table
\* T that raises no error, new being the row the table then holds in its place.
UpdatesOf(T, values, Updated(_, _), UpdateErrors(_, _), AfterUpdate(_, _),
          P(_, _, _)) ==
  \A old \in T, set \in values :
    UpdateErrors(old, Updated(old, set)) = {} =>
      LET after == AfterUpdate(old.id, set)
      IN  \E new \in after :
            /\ after = (T \ {old}) \cup {new}
            /\ new.id = Column(set, "id", old.id)
            /\ P(old, set, new)

\* P holds of every UPDATE of a row of each of the six tables.
EveryUpdate(K, P(_, _, _)) ==
  /\ UpdatesOf(users, UserValues(K), usersUpdated, usersUpdateErrors,
               usersAfterUpdate, P)
  /\ UpdatesOf(organizers, OrganizerValues(K), organizersUpdated,
               organizersUpdateErrors, organizersAfterUpdate, P)
  /\ UpdatesOf(events, EventValues(K), eventsUpdated, eventsUpdateErrors,
               eventsAfterUpdate, P)
  /\ UpdatesOf(ticket_tiers, TicketTierValues(K), ticket_tiersUpdated,
               ticket_tiersUpdateErrors, ticket_tiersAfterUpdate, P)
  /\ UpdatesOf(tickets, TicketValues(K), ticketsUpdated, ticketsUpdateErrors,
               ticketsAfterUpdate, P)
  /\ UpdatesOf(transactions, TransactionValues(K), transactionsUpdated,
               transactionsUpdateErrors, transactionsAfterUpdate, P)

\* P(values, row) holds of every INSERT into the table T that raises no error,
\* row being the row the table then holds.
InsertsOf(T, values, keys, InsertErrors(_, _), AfterInsert(_, _), P(_, _)) ==
  \A v \in values :
    \A k \in NewIds(v, T, keys) :
      InsertErrors(v, k) = {} =>
        \E r \in AfterInsert(v, k) :
          /\ AfterInsert(v, k) = T \cup {r}
          /\ r.id = k
          /\ P(v, r)

\* P holds of every INSERT into each of the six tables.
EveryInsert(K, P(_, _)) ==
  /\ InsertsOf(users, UserValues(K), K.users, usersInsertErrors,
               usersAfterInsert, P)
  /\ InsertsOf(organizers, OrganizerValues(K), K.organizers,
               organizersInsertErrors, organizersAfterInsert, P)
  /\ InsertsOf(events, EventValues(K), K.events, eventsInsertErrors,
               eventsAfterInsert, P)
  /\ InsertsOf(ticket_tiers, TicketTierValues(K), K.ticket_tiers,
               ticket_tiersInsertErrors, ticket_tiersAfterInsert, P)
  /\ InsertsOf(tickets, TicketValues(K), K.tickets, ticketsInsertErrors,
               ticketsAfterInsert, P)
  /\ InsertsOf(transactions, TransactionValues(K), K.transactions,
               transactionsInsertErrors, transactionsAfterInsert, P)

\* C3 as claimed: an UPDATE of any row of any of the six tables leaves it with
\* an updated_at >= its previous updated_at and >= its created_at.
C3_UpdatedAtNeverDecreases ==
  LET P(old, set, new) == /\ new.updated_at >= old.updated_at
                          /\ new.updated_at >= new.created_at
  IN  EveryUpdate(TimeScope, P)

\* C3 as amended: the updated_at an UPDATE stores is >= the previous
\* updated_at exactly when that one is not later than the time of the UPDATE,
\* and >= the row's created_at exactly when that one is not later than it.
C3_UpdatedAtNotBeforePastStamps ==
  LET P(old, set, new) ==
        /\ new.updated_at >= old.updated_at <=> old.updated_at <= now
        /\ new.updated_at >= new.created_at <=> new.created_at <= now
  IN  EveryUpdate(TimeScope, P)

\* Every table holds a row; the transaction was written before now, and the
\* ticket was given a created_at later than the time of its last UPDATE.
C3_Witness ==
  \E x \in transactions, k \in tickets :
    /\ x.updated_at < now /\ x.created_at < now
    /\ k.created_at > k.updated_at

\* C10: every UPDATE of a row of any of the six tables stores the current time
\* as updated_at, whatever updated_at the statement gives, and stores in every
\* other column the value the statement gives it, or the old value when it
\* gives none; an INSERT stores the updated_at it is given, or else the
\* default, the current time.
C10_TriggerWritesOnlyUpdatedAt ==
  LET U(old, set, new) ==
        /\ new.updated_at = now
        /\ \A c \in DOMAIN old \ {"updated_at"} : new[c] = Column(set, c, old[c])
      I(v, row) == row.updated_at = Column(v, "updated_at", now)
  IN  EveryUpdate(TimeScope, U) /\ EveryInsert(TimeScope, I)

\* Every table holds a row, and a statement can still name an updated_at that
\* is not the current time.
C10_Witness ==
  /\ \E x \in transactions : x.updated_at # now
  /\ now \notin TimeScope.times

====
